---------------------------- MODULE Spec2Model ----------------------------
(***************************************************************************)
(* A model of main() of src/main.py, the COVID-19 analysis pipeline:       *)
(* load the CSV, clean and enrich the ten countries of interest, draw the  *)
(* seven chart panels and save them, build the two choropleth maps from    *)
(* the unfiltered table, print the insights.                               *)
(*                                                                         *)
(* A table is a sequence of rows; a row is a record of its columns plus    *)
(* idx, the label the row has in the frame's index (its position in the    *)
(* file).  Missing cells are NA (numbers), NaT (dates), NaLoc (strings)    *)
(* and NaNf (floats computed by the program).  A computed float is a pair  *)
(* <<n, d>>: n/d when d > 0, +inf when d = 0 < n, NaN when both are 0.      *)
(***************************************************************************)
EXTENDS Integers, Sequences, FiniteSets, TLC

VARIABLES env, pc, df, df_filtered, latest_data, latest_vaccination,
          latest_global, panels, fig_cases, fig_vacc, files, written, out,
          stages

vars == <<env, pc, df, df_filtered, latest_data, latest_vaccination,
          latest_global, panels, fig_cases, fig_vacc, files, written, out,
          stages>>

-----------------------------------------------------------------------------
(* Bounds of the input tables *)
MaxRows == 3
MaxDate == 2

-----------------------------------------------------------------------------
(* Missing values and floats *)
NA == -1
NaT == 0
BadDate == -2
NaLoc == "NaN"
NaNf == <<0, 0>>
Million == 1000000
Percent == 100
Window == 7

IsNaN(f) == f = NaNf

(* a / b on two float64 cells *)
FDiv(a, b) ==
    IF a = NA \/ b = NA THEN NaNf
    ELSE IF b = 0 THEN (IF a = 0 THEN NaNf ELSE <<1, 0>>)
    ELSE <<a, b>>

(* f * k for a positive constant k *)
FMul(f, k) == IF f[2] = 0 THEN f ELSE <<f[1] * k, f[2]>>

(* a cell read from the file, as a float *)
FromCell(v) == IF v = NA THEN NaNf ELSE <<v, 1>>

(* a > b on two floats neither of which is NaN *)
FGt(a, b) == a[1] * b[2] > b[1] * a[2]

-----------------------------------------------------------------------------
(* Columns *)
countries_of_interest ==
    {"Kenya", "United States", "India", "Brazil", "United Kingdom",
     "South Africa", "Germany", "China", "Japan", "Australia"}

key_columns ==
    {"total_cases", "new_cases", "total_deaths", "new_deaths",
     "total_vaccinations", "people_vaccinated", "people_fully_vaccinated"}

DerivedColumns == {"death_rate", "cases_per_million", "deaths_per_million"}

CsvColumns ==
    key_columns \cup {"location", "iso_code", "date", "population",
                      "people_fully_vaccinated_per_hundred",
                      "total_cases_per_million"}

OutputFiles ==
    {"covid_analysis.png", "covid_cases_map.html", "covid_vaccination_map.html"}

(* the order groupby gives its groups: sorted by the group key *)
GroupOrder ==
    <<"Australia", "Brazil", "China", "France", "Germany", "India", "Japan",
      "Kenya", "South Africa", "United Kingdom", "United States">>

IsNull(c, v) ==
    CASE c = "date" -> v = NaT
      [] c \in {"location", "iso_code"} -> v = NaLoc
      [] c \in DerivedColumns -> v = NaNf
      [] OTHER -> v = NA

Null(c) ==
    CASE c = "date" -> NaT
      [] c \in {"location", "iso_code"} -> NaLoc
      [] c \in DerivedColumns -> NaNf
      [] OTHER -> NA

Max(S) == CHOOSE x \in S : \A y \in S : y <= x


(* s in the order of before, a strict total order on the positions of s
   given as the set of pairs <<j, i>> with position j ahead of position i *)
SortBy(s, before) ==
    LET n == Len(s)
        Rank(i) == 1 + Cardinality({j \in 1..n : <<j, i>> \in before})
    IN  [p \in 1..n |-> s[CHOOSE i \in 1..n : Rank(i) = p]]

-----------------------------------------------------------------------------
(* Dates as the file writes them, and pd.to_datetime *)
DateText(d) == "2021-01-0" \o ToString(d)

Parseable(s) == s = "" \/ \E d \in 1..9 : DateText(d) = s

to_datetime(s) ==
    IF s = "" THEN NaT ELSE CHOOSE d \in 1..9 : DateText(d) = s

ParseDates(t) == [i \in 1..Len(t) |-> [t[i] EXCEPT !.date = to_datetime(@)]]

-----------------------------------------------------------------------------
(* The cleaning steps *)

(* the frame left as it is: the isin filter forgotten *)
Filter_Unfiltered(t) == t

(* df[df['location'].isin(countries_of_interest)].copy() *)
Filter(t) == SelectSeq(t, LAMBDA r : r.location \in countries_of_interest)

(* a forward fill down the whole frame, the groupby forgotten *)
GroupFfill_Ungrouped(t, i, c) ==
    IF t[i][c] # NA THEN t[i][c]
    ELSE LET J == {j \in 1..(i - 1) : t[j][c] # NA}
         IN  IF J = {} THEN NA ELSE t[Max(J)][c]

(* the value groupby('location')[c].fillna(method='ffill') gives row i: its
   own, or that of the nearest row above it in the frame with the same
   location and a value *)
GroupFfill(t, i, c) ==
    IF t[i][c] # NA THEN t[i][c]
    ELSE LET J == {j \in 1..(i - 1) :
                     t[j].location = t[i].location /\ t[j][c] # NA}
         IN  IF J = {} THEN NA ELSE t[Max(J)][c]

(* line 42 forgotten *)
FillNa_Keep(v) == v

FillNa(v) == IF v = NA THEN 0 ELSE v

(* lines 41 and 42 on one cell *)
Filled(t, i, c) == FillNa(GroupFfill(t, i, c))

FillKeyColumns(t) ==
    [i \in 1..Len(t) |->
        [c \in DOMAIN t[i] |->
            IF c \in key_columns THEN Filled(t, i, c) ELSE t[i][c]]]

(* lines 44 to 46 *)
Derive(r) ==
    [c \in DOMAIN r \cup DerivedColumns |->
        CASE c = "death_rate" -> FDiv(r.total_deaths, r.total_cases)
          [] c = "cases_per_million" ->
                FMul(FDiv(r.total_cases, r.population), Million)
          [] c = "deaths_per_million" ->
                FMul(FDiv(r.total_deaths, r.population), Million)
          [] OTHER -> r[c]]

(* dropna(subset=['date', 'location']) *)
DropNa(t) == SelectSeq(t, LAMBDA r : r.date # NaT /\ r.location # NaLoc)

(* lines 36 to 47, on the frame whose dates are parsed *)
CleanTable(t) ==
    LET filled == FillKeyColumns(Filter(t))
    IN  DropNa([i \in 1..Len(filled) |-> Derive(filled[i])])

-----------------------------------------------------------------------------
(* sort_values and groupby('location').last() *)

(* NaT sorts last *)
DateBefore(a, b) == a # NaT /\ (b = NaT \/ a < b)

(* the frame in file order: the sort by date forgotten *)
sort_values_date_Unsorted(t) == t

sort_values_date(t) ==
    SortBy(t, {<<j, i>> \in (DOMAIN t) \X (DOMAIN t) :
        \/ DateBefore(t[j].date, t[i].date)
        \/ ~DateBefore(t[i].date, t[j].date) /\ j < i})

(* column c of entry r as the float the sort and the bars read *)
Metric(r, c) == IF c \in DerivedColumns THEN r[c] ELSE FromCell(r[c])

(* a sorts before b in sort_values(ascending=False): NaN last *)
SortsBefore(a, b) == ~IsNaN(a) /\ (IsNaN(b) \/ FGt(a, b))

(* descending, NaN last, ties in the order they had *)
sort_values_desc(t, c) ==
    SortBy(t, {<<j, i>> \in (DOMAIN t) \X (DOMAIN t) :
        \/ SortsBefore(Metric(t[j], c), Metric(t[i], c))
        \/ ~SortsBefore(Metric(t[i], c), Metric(t[j], c)) /\ j < i})

(* the last value of column c that is not null among the rows of location l *)
LastValid(t, l, c) ==
    LET J == {j \in 1..Len(t) : t[j].location = l /\ ~IsNull(c, t[j][c])}
    IN  IF J = {} THEN Null(c) ELSE t[Max(J)][c]

(* one entry per location of t, in key order; each column holds the last
   value of the group that is not null; rows without a location form no group *)
GroupLast(t) ==
    LET cols == IF Len(t) = 0 THEN {} ELSE DOMAIN t[1] \ {"idx", "location"}
        present == {t[i].location : i \in 1..Len(t)} \ {NaLoc}
        keys == SelectSeq(GroupOrder, LAMBDA l : l \in present)
    IN  [k \in 1..Len(keys) |->
            [c \in cols \cup {"location"} |->
                IF c = "location" THEN keys[k] ELSE LastValid(t, keys[k], c)]]

-----------------------------------------------------------------------------
(* The chart panels *)

RowsOf(t, country) == SelectSeq(t, LAMBDA r : r.location = country)

(* rolling(7).mean() at position i of a series of cells *)
RollingMean(s, i) ==
    LET Sum[k \in 0..Window] ==
            IF k = 0 THEN 0 ELSE Sum[k - 1] + s[i - k + 1]
    IN  IF i < Window \/ \E k \in (i - Window + 1)..i : s[k] = NA
        THEN NaNf
        ELSE <<Sum[Window], Window>>

(* plots 1, 2 and 6: one line per country of interest *)
LinePlot(t, c) ==
    [country \in countries_of_interest |->
        LET d == RowsOf(t, country)
        IN  [i \in 1..Len(d) |-> <<d[i].date, FromCell(d[i][c])>>]]

RollingPlot(t, c) ==
    [country \in countries_of_interest |->
        LET d == RowsOf(t, country)
            s == [i \in 1..Len(d) |-> d[i][c]]
        IN  [i \in 1..Len(d) |-> <<d[i].date, RollingMean(s, i)>>]]

(* sns.barplot(x=t.index, y=t[c] * k): one bar per entry, in the table's order *)
BarPlot(t, c, k) ==
    [i \in 1..Len(t) |-> [x |-> t[i].location, y |-> FMul(Metric(t[i], c), k)]]

(* line 80 *)
LatestData(t) == GroupLast(sort_values_date(t))

(* the map snapshot taken of the cleaned frame instead of df *)
LatestGlobal_Filtered(t) ==
    GroupLast(sort_values_date(FillKeyColumns(Filter(t))))

(* line 133 *)
LatestGlobal(t) == GroupLast(sort_values_date(t))

(* px.choropleth: one region per snapshot row *)
Choropleth(t, c) ==
    [i \in 1..Len(t) |->
        [locations |-> t[i].iso_code, color |-> t[i][c],
         hover_name |-> t[i].location]]

NoPanels == [p \in {1, 2, 3, 4, 5, 6, 7} |-> <<>>]

-----------------------------------------------------------------------------
(* The inputs of a run: the file, its columns and rows, the output files
   already in the directory, and the step at which something outside the
   program (the renderer, the disk) raises *)

InputLocations == {"Kenya", "India", "France", NaLoc}

Iso(l) ==
    CASE l = "Kenya" -> "KEN" [] l = "India" -> "IND" [] l = "Brazil" -> "BRA"
      [] l = "France" -> "FRA" [] OTHER -> NaLoc

DateCell(d) == IF d = NaT THEN "" ELSE IF d = BadDate THEN "bad" ELSE DateText(d)

(* a row of the file: cases fills the two case counters and the source's
   per-million column, deaths the two death counters, vacc the three
   vaccination counters and the per-hundred column *)
MkRow(i, l, d, cases, deaths, vacc, pop) ==
    [idx |-> i, location |-> l, iso_code |-> Iso(l), date |-> DateCell(d),
     population |-> pop,
     total_cases |-> cases, new_cases |-> cases,
     total_deaths |-> deaths, new_deaths |-> deaths,
     total_vaccinations |-> vacc, people_vaccinated |-> vacc,
     people_fully_vaccinated |-> vacc,
     people_fully_vaccinated_per_hundred |-> vacc,
     total_cases_per_million |-> cases]

Lengths == 0..MaxRows

(* rows in date order, any location, a counter present or missing *)
TableFill(n, l, has) ==
    [i \in 1..n |-> MkRow(i, l[i], i, IF has[i] THEN i ELSE NA, NA, NA, 1)]

Kinds == {"cases", "vacc"}

(* rows of one country in any date order; a row reports its cases or its
   vaccinations *)
TableDated(n, d, kind) ==
    [i \in 1..n |->
        MkRow(i, "Kenya", d[i], IF kind[i] = "cases" THEN i ELSE NA, NA,
              IF kind[i] = "vacc" THEN i ELSE NA, 1)]

Ranked == <<"Kenya", "India", "Brazil", "Kenya", "India", "Brazil">>

(* one row after the other of three countries of interest, with the values
   the bar charts rank *)
TableRanked(n, has, deaths, vacc) ==
    [i \in 1..n |->
        MkRow(i, Ranked[i], 1 + (i \div 4), IF has[i] THEN 1 ELSE NA,
              deaths[i], IF vacc[i] THEN i ELSE NA, 1 + (i % 2))]

SampleTable ==
    <<MkRow(1, "Kenya", 1, 1, NA, NA, 1), MkRow(2, "France", 1, 1, 1, 1, 1)>>

BadDateTable ==
    <<MkRow(1, "Kenya", 1, 1, NA, NA, 1), MkRow(2, "France", BadDate, 1, 1, 1, 1)>>

FailPoints ==
    {"none", "clean", "chart", "savefig", "snapshot", "cases_map", "vacc_map"}

(* every column, or all but one *)
ColumnSets == {CsvColumns} \cup {CsvColumns \ {c} : c \in CsvColumns}

GoodEnv(t) ==
    [exists |-> TRUE, columns |-> CsvColumns, rows |-> t, failAt |-> "none",
     files0 |-> {}]

EnvControl ==
    [exists : BOOLEAN, columns : ColumnSets,
     rows : {SampleTable, BadDateTable}, failAt : FailPoints,
     files0 : SUBSET OutputFiles]

Start(e) ==
    /\ env = e
    /\ pc = "start"
    /\ df = <<>>
    /\ df_filtered = <<>>
    /\ latest_data = <<>>
    /\ latest_vaccination = <<>>
    /\ latest_global = <<>>
    /\ panels = NoPanels
    /\ fig_cases = <<>>
    /\ fig_vacc = <<>>
    /\ files = e.files0
    /\ written = <<>>
    /\ out = <<>>
    /\ stages = <<>>

InitControl == \E e \in EnvControl : Start(e)

InitFill ==
    \E n \in Lengths :
        \E l \in [1..n -> InputLocations], has \in [1..n -> BOOLEAN] :
            Start(GoodEnv(TableFill(n, l, has)))

InitDated ==
    \E n \in Lengths :
        \E d \in [1..n -> {NaT} \cup (1..MaxDate)], kind \in [1..n -> Kinds] :
            Start(GoodEnv(TableDated(n, d, kind)))

InitRanked ==
    \E n \in Lengths :
        \E has \in [1..n -> BOOLEAN], deaths \in [1..n -> {0, 1}],
           vacc \in [1..n -> BOOLEAN] :
            Start(GoodEnv(TableRanked(n, has, deaths, vacc)))

Init == InitControl \/ InitFill \/ InitDated \/ InitRanked

-----------------------------------------------------------------------------
(* main(), one action per step that leaves something to observe *)

MissingFile ==
    <<"Error: Dataset file 'owid-covid-data.csv' not found.",
      "Please download it from Our World in Data and save it in the same directory.">>

(* pd.read_csv: the rows with the columns the file has *)
read_csv(e) ==
    [i \in 1..Len(e.rows) |->
        [c \in e.columns \cup {"idx"} |-> e.rows[i][c]]]

(* the except branch without its return: the run goes on with an empty frame *)
Load_FallsThrough ==
    /\ pc = "start"
    /\ stages' = Append(stages, "load")
    /\ df' = IF env.exists THEN read_csv(env) ELSE <<>>
    /\ out' = IF env.exists
              THEN out \o <<"Loading data...", "Dataset successfully loaded!">>
              ELSE out \o <<"Loading data...">> \o MissingFile
    /\ pc' = "loaded"
    /\ UNCHANGED <<env, df_filtered, latest_data, latest_vaccination,
                   latest_global, panels, fig_cases, fig_vacc, files, written>>

(* lines 16 to 27 *)
Load ==
    /\ pc = "start"
    /\ stages' = Append(stages, "load")
    /\ IF env.exists
       THEN /\ df' = read_csv(env)
            /\ out' = out \o <<"Loading data...", "Dataset successfully loaded!">>
            /\ pc' = "loaded"
       ELSE /\ df' = df
            /\ out' = out \o <<"Loading data...">> \o MissingFile
            /\ pc' = "returned"
    /\ UNCHANGED <<env, df_filtered, latest_data, latest_vaccination,
                   latest_global, panels, fig_cases, fig_vacc, files, written>>

(* lines 30 to 47 *)
Clean ==
    /\ pc = "loaded"
    /\ stages' = Append(stages, "clean")
    /\ out' = Append(out, "Cleaning data...")
    /\ LET datesOk == /\ "date" \in env.columns
                      /\ \A i \in 1..Len(df) : Parseable(df[i].date)
           ok == /\ datesOk
                 /\ {"location", "population"} \cup key_columns \subseteq env.columns
                 /\ env.failAt # "clean"
       IN  /\ df' = IF datesOk THEN ParseDates(df) ELSE df
           /\ IF ok
              THEN /\ df_filtered' = CleanTable(ParseDates(df))
                   /\ pc' = "cleaned"
              ELSE /\ df_filtered' = df_filtered
                   /\ pc' = "aborted"
    /\ UNCHANGED <<env, latest_data, latest_vaccination, latest_global, panels,
                   fig_cases, fig_vacc, files, written>>

Vacc == "people_fully_vaccinated_per_hundred"

(* lines 50 to 86: the two line plots of the cases, the snapshot and the
   death-rate bars *)
Panel3 ==
    /\ pc = "cleaned"
    /\ stages' = Append(stages, "chart")
    /\ out' = Append(out, "Generating visualizations...")
    /\ IF env.failAt = "chart"
       THEN /\ pc' = "aborted"
            /\ UNCHANGED <<latest_data, panels>>
       ELSE /\ latest_data' = sort_values_desc(LatestData(df_filtered), "death_rate")
            /\ panels' =
                 [panels EXCEPT
                    ![1] = LinePlot(df_filtered, "total_cases"),
                    ![2] = RollingPlot(df_filtered, "new_cases"),
                    ![3] = BarPlot(latest_data', "death_rate", Percent)]
            /\ pc' = "panel3"
    /\ UNCHANGED <<env, df, df_filtered, latest_vaccination, latest_global,
                   fig_cases, fig_vacc, files, written>>

(* panel 4 drawn from the table as panel 3 left it: its sort forgotten *)
Panel4_NoSort ==
    /\ pc = "panel3"
    /\ latest_data' = latest_data
    /\ panels' = [panels EXCEPT
                    ![4] = BarPlot(latest_data', "cases_per_million", 1)]
    /\ pc' = "panel4"
    /\ UNCHANGED <<env, df, df_filtered, latest_vaccination, latest_global,
                   fig_cases, fig_vacc, files, written, out, stages>>

(* lines 88 to 95 *)
Panel4 ==
    /\ pc = "panel3"
    /\ latest_data' = sort_values_desc(latest_data, "cases_per_million")
    /\ panels' = [panels EXCEPT
                    ![4] = BarPlot(latest_data', "cases_per_million", 1)]
    /\ pc' = "panel4"
    /\ UNCHANGED <<env, df, df_filtered, latest_vaccination, latest_global,
                   fig_cases, fig_vacc, files, written, out, stages>>

(* lines 97 to 104 *)
Panel5 ==
    /\ pc = "panel4"
    /\ latest_data' = sort_values_desc(latest_data, "deaths_per_million")
    /\ panels' = [panels EXCEPT
                    ![5] = BarPlot(latest_data', "deaths_per_million", 1)]
    /\ pc' = "panel5"
    /\ UNCHANGED <<env, df, df_filtered, latest_vaccination, latest_global,
                   fig_cases, fig_vacc, files, written, out, stages>>

(* plots 6 and 7 left out when the file has no per-hundred column, so that
   the chart stage does not read it *)
Panel7_SkipsMissingColumn ==
    /\ pc = "panel5"
    /\ IF Vacc \in env.columns
       THEN /\ latest_vaccination' = sort_values_desc(latest_data, Vacc)
            /\ panels' = [panels EXCEPT
                            ![6] = LinePlot(df_filtered, Vacc),
                            ![7] = BarPlot(latest_vaccination', Vacc, 1)]
       ELSE UNCHANGED <<latest_vaccination, panels>>
    /\ pc' = "drawn"
    /\ UNCHANGED <<env, df, df_filtered, latest_data, latest_global,
                   fig_cases, fig_vacc, files, written, out, stages>>

(* lines 106 to 125 *)
Panel7 ==
    /\ pc = "panel5"
    /\ IF Vacc \in env.columns
       THEN /\ latest_vaccination' = sort_values_desc(latest_data, Vacc)
            /\ panels' = [panels EXCEPT
                            ![6] = LinePlot(df_filtered, Vacc),
                            ![7] = BarPlot(latest_vaccination', Vacc, 1)]
            /\ pc' = "drawn"
       ELSE /\ pc' = "aborted"
            /\ UNCHANGED <<latest_vaccination, panels>>
    /\ UNCHANGED <<env, df, df_filtered, latest_data, latest_global,
                   fig_cases, fig_vacc, files, written, out, stages>>

(* a write that raises may leave the file behind or not *)
FailedWrite(f) == files' \in {files, files \cup {f}}

(* the figure laid out but never saved: line 128 forgotten *)
SaveFig_NotSaved ==
    /\ pc = "drawn"
    /\ IF env.failAt = "savefig"
       THEN /\ pc' = "aborted"
            /\ UNCHANGED <<files, written, out>>
       ELSE /\ out' = Append(out, "Visualizations saved as 'covid_analysis.png'")
            /\ pc' = "saved"
            /\ UNCHANGED <<files, written>>
    /\ UNCHANGED <<env, df, df_filtered, latest_data, latest_vaccination,
                   latest_global, panels, fig_cases, fig_vacc, stages>>

(* lines 127 to 129 *)
SaveFig ==
    /\ pc = "drawn"
    /\ IF env.failAt = "savefig"
       THEN /\ FailedWrite("covid_analysis.png")
            /\ pc' = "aborted"
            /\ UNCHANGED <<written, out>>
       ELSE /\ files' = files \cup {"covid_analysis.png"}
            /\ written' = Append(written, "covid_analysis.png")
            /\ out' = Append(out, "Visualizations saved as 'covid_analysis.png'")
            /\ pc' = "saved"
    /\ UNCHANGED <<env, df, df_filtered, latest_data, latest_vaccination,
                   latest_global, panels, fig_cases, fig_vacc, stages>>

(* lines 132 and 133 *)
MapSnapshot ==
    /\ pc = "saved"
    /\ stages' = Append(stages, "maps")
    /\ out' = Append(out, "Generating interactive world maps...")
    /\ IF env.failAt = "snapshot"
       THEN /\ pc' = "aborted"
            /\ UNCHANGED latest_global
       ELSE /\ latest_global' = LatestGlobal(df)
            /\ pc' = "snapshot"
    /\ UNCHANGED <<env, df, df_filtered, latest_data, latest_vaccination,
                   panels, fig_cases, fig_vacc, files, written>>

(* lines 136 to 142 *)
CasesMap ==
    /\ pc = "snapshot"
    /\ IF ~({"iso_code", "total_cases_per_million"} \subseteq env.columns)
       THEN /\ pc' = "aborted"
            /\ UNCHANGED <<fig_cases, files, written>>
       ELSE /\ fig_cases' = Choropleth(latest_global, "total_cases_per_million")
            /\ IF env.failAt = "cases_map"
               THEN /\ FailedWrite("covid_cases_map.html")
                    /\ pc' = "aborted"
                    /\ UNCHANGED written
               ELSE /\ files' = files \cup {"covid_cases_map.html"}
                    /\ written' = Append(written, "covid_cases_map.html")
                    /\ pc' = "cases_written"
    /\ UNCHANGED <<env, df, df_filtered, latest_data, latest_vaccination,
                   latest_global, panels, fig_vacc, out, stages>>

(* the second map written under the first map's name *)
VaccMap_WrongName ==
    /\ pc = "cases_written"
    /\ IF ~({"iso_code", Vacc} \subseteq env.columns)
       THEN /\ pc' = "aborted"
            /\ UNCHANGED <<fig_vacc, files, written>>
       ELSE /\ fig_vacc' = Choropleth(latest_global, Vacc)
            /\ IF env.failAt = "vacc_map"
               THEN /\ FailedWrite("covid_cases_map.html")
                    /\ pc' = "aborted"
                    /\ UNCHANGED written
               ELSE /\ files' = files \cup {"covid_cases_map.html"}
                    /\ written' = Append(written, "covid_cases_map.html")
                    /\ pc' = "vacc_written"
    /\ UNCHANGED <<env, df, df_filtered, latest_data, latest_vaccination,
                   latest_global, panels, fig_cases, out, stages>>

(* lines 145 to 151 *)
VaccMap ==
    /\ pc = "cases_written"
    /\ IF ~({"iso_code", Vacc} \subseteq env.columns)
       THEN /\ pc' = "aborted"
            /\ UNCHANGED <<fig_vacc, files, written>>
       ELSE /\ fig_vacc' = Choropleth(latest_global, Vacc)
            /\ IF env.failAt = "vacc_map"
               THEN /\ FailedWrite("covid_vaccination_map.html")
                    /\ pc' = "aborted"
                    /\ UNCHANGED written
               ELSE /\ files' = files \cup {"covid_vaccination_map.html"}
                    /\ written' = Append(written, "covid_vaccination_map.html")
                    /\ pc' = "vacc_written"
    /\ UNCHANGED <<env, df, df_filtered, latest_data, latest_vaccination,
                   latest_global, panels, fig_cases, out, stages>>

(* lines 153 to 165 *)
Report ==
    /\ pc = "vacc_written"
    /\ stages' = Append(stages, "report")
    /\ out' = out \o <<"Interactive maps saved as HTML files:", "Key Insights:",
                       "Analysis complete!">>
    /\ pc' = "done"
    /\ UNCHANGED <<env, df, df_filtered, latest_data, latest_vaccination,
                   latest_global, panels, fig_cases, fig_vacc, files, written>>

Next ==
    \/ Load
    \/ Clean
    \/ Panel3
    \/ Panel4
    \/ Panel5
    \/ Panel7
    \/ SaveFig
    \/ MapSnapshot
    \/ CasesMap
    \/ VaccMap
    \/ Report

Spec == Init /\ [][Next]_vars

(* the interpreter runs the statements of main() one after the other *)
LiveSpec == InitControl /\ [][Next]_vars /\ WF_vars(Next)

-----------------------------------------------------------------------------
(* What the properties below speak of *)

Image == "covid_analysis.png"
Maps == {"covid_cases_map.html", "covid_vaccination_map.html"}

Range(s) == {s[i] : i \in DOMAIN s}

IsPrefix(s, t) == Len(s) <= Len(t) /\ \A i \in 1..Len(s) : s[i] = t[i]

(* the rows of the file, their dates read as dates *)
Raw == [i \in 1..Len(env.rows) |->
            [env.rows[i] EXCEPT !.date = IF Parseable(@) THEN to_datetime(@) ELSE NaT]]

CleanDone == pc \in {"cleaned", "panel3", "panel4", "panel5", "drawn", "saved", "snapshot", "cases_written",
                     "vacc_written", "done"}
SnapshotTaken == pc \in {"panel3", "panel4", "panel5", "drawn", "saved",
                         "snapshot", "cases_written", "vacc_written", "done"}
ChartDone == pc \in {"drawn", "saved", "snapshot", "cases_written",
                     "vacc_written", "done"}
SnapshotDone == pc \in {"snapshot", "cases_written", "vacc_written", "done"}

FiveStages == <<"load", "clean", "chart", "maps", "report">>
ThreeFiles == <<"covid_analysis.png", "covid_cases_map.html",
                "covid_vaccination_map.html">>

(* the input is found and nothing in the run raises *)
NothingFails ==
    /\ env.exists
    /\ env.columns = CsvColumns
    /\ env.failAt = "none"
    /\ \A i \in 1..Len(env.rows) : Parseable(env.rows[i].date)

-----------------------------------------------------------------------------
(* C1: when owid-covid-data.csv is absent the run prints the missing-file
   message naming the file and returns: it never aborts, never enters the
   cleaning, chart or map stage, and no output file is created or written;
   and the run does reach that return. *)
C1_MissingFileReturns ==
    /\ [](~env.exists =>
            /\ pc \in {"start", "returned"}
            /\ Range(stages) \subseteq {"load"}
            /\ written = <<>>
            /\ files = env.files0
            /\ pc = "returned" =>
                 \E i \in DOMAIN out :
                    out[i] = "Error: Dataset file 'owid-covid-data.csv' not found.")
    /\ (~env.exists ~> pc = "returned")

C1_Witness ==
    /\ ~env.exists
    /\ pc = "returned"
    /\ files = {}
    /\ Len(out) = 3

(* C2: when the input is found and no step fails, the five stages run once
   each in the order load, clean, chart, maps, report, the files are written
   in the order image, cases map, vaccination map, and the run ends with all
   three present. *)
C2_StagesInOrder ==
    /\ [](NothingFails =>
            /\ pc # "aborted"
            /\ IsPrefix(stages, FiveStages)
            /\ IsPrefix(written, ThreeFiles)
            /\ pc = "done" =>
                 /\ stages = FiveStages
                 /\ written = ThreeFiles
                 /\ OutputFiles \subseteq files)
    /\ (NothingFails ~> (pc = "done" /\ OutputFiles \subseteq files))

C2_Witness ==
    /\ NothingFails
    /\ env.files0 = {}
    /\ pc = "done"
    /\ written = ThreeFiles

(* C3, as claimed: of a run that starts with no output file and aborts, the
   stage that fails decides which part is left, either way round: a failure
   in the map stage before a map is written leaves the image without the
   maps, and a failure in the chart stage leaves a map without the image. *)
C3_EitherPartialOutcome ==
    (pc = "aborted" /\ env.files0 = {}) =>
        /\ (stages[Len(stages)] = "maps" /\ fig_cases = <<>>) =>
              (Image \in files /\ files \cap Maps = {})
        /\ stages[Len(stages)] = "chart" =>
              (Image \notin files /\ files \cap Maps # {})

(* C3, amended: in a run that starts with no output file, a map file never
   exists without the image (the maps are written after it), so the only
   partial outcomes of an abort are no file, the image alone, and the image
   with the cases map. *)
C3_ImageBeforeMaps ==
    env.files0 = {} =>
        /\ files \cap Maps # {} => Image \in files
        /\ "covid_vaccination_map.html" \in files =>
              "covid_cases_map.html" \in files

C3_Witness ==
    /\ pc = "aborted"
    /\ env.files0 = {}
    /\ env.failAt = "cases_map"
    /\ files = {Image}

(* C4: after cleaning, every row of the filtered table has a location of the
   ten-country allowlist and is a row of the raw table df (same index label,
   location, date and population), each row of df at most once. *)
C4_OnlyAllowlisted ==
    CleanDone =>
        /\ \A k \in DOMAIN df_filtered :
              /\ df_filtered[k].location \in countries_of_interest
              /\ df_filtered[k].idx \in DOMAIN df
              /\ df[df_filtered[k].idx].location = df_filtered[k].location
              /\ df[df_filtered[k].idx].date = df_filtered[k].date
              /\ df[df_filtered[k].idx].population = df_filtered[k].population
        /\ \A k, m \in DOMAIN df_filtered :
              k < m => df_filtered[k].idx < df_filtered[m].idx

C4_Witness ==
    /\ CleanDone
    /\ Len(df_filtered) = 1
    /\ \E i \in DOMAIN df : df[i].location = "France"
    /\ \E i \in DOMAIN df : df[i].location = NaLoc

(* the file holds no value of column c for the row's location at or above
   row i *)
LeadingGap(i, c) ==
    \A j \in 1..i : df[j].location = df[i].location => df[j][c] = NA

(* C5: after cleaning no row of the filtered table holds a missing key
   counter, and a row in a leading gap of its country (no value of the
   counter at or above it in the file) holds zero. *)
C5_NoMissingCounter ==
    CleanDone =>
        \A k \in DOMAIN df_filtered : \A c \in key_columns :
            /\ df_filtered[k][c] # NA
            /\ LeadingGap(df_filtered[k].idx, c) => df_filtered[k][c] = 0

C5_Witness ==
    /\ CleanDone
    /\ \E k, m \in DOMAIN df_filtered :
          /\ k < m
          /\ df_filtered[k].location = df_filtered[m].location
          /\ LeadingGap(df_filtered[k].idx, "total_cases")
          /\ df[df_filtered[m].idx].total_cases = NA
          /\ df_filtered[m].total_cases > 0

(* row j of the file comes before row i in the date order of the series
   (rows of one date in file order, rows without a date last) *)
Earlier(j, i) ==
    \/ DateBefore(df[j].date, df[i].date)
    \/ ~DateBefore(df[i].date, df[j].date) /\ j < i

(* the rows of the file that can fill column c of row i: same location, a
   value in c *)
Donors(i, c) ==
    {j \in DOMAIN df : df[j].location = df[i].location /\ df[j][c] # NA}

(* C6, as claimed (for a file whose rows all have a date): whatever the order
   of the rows in the file, a missing key counter is replaced by the value of
   the most recent prior row of the same country in date order that holds a
   value (zero when there is none). *)
C6_FillInDateOrder ==
    (CleanDone /\ \A j \in DOMAIN df : df[j].date # NaT) =>
        \A k \in DOMAIN df_filtered : \A c \in key_columns :
            LET i == df_filtered[k].idx
                prior == {j \in Donors(i, c) : Earlier(j, i)}
            IN  df[i][c] = NA =>
                  IF prior = {} THEN df_filtered[k][c] = 0
                  ELSE \E j \in prior :
                          /\ \A m \in prior : m = j \/ Earlier(m, j)
                          /\ df_filtered[k][c] = df[j][c]

(* C6, amended: a missing key counter is replaced by the value of the nearest
   row above it in the file that has the same location and holds a value
   (zero when there is none): never a value of another country or of a row
   below it, but, when the file is not in date order, possibly the value of
   a row with a later date. *)
C6_FillInFileOrder ==
    CleanDone =>
        \A k \in DOMAIN df_filtered : \A c \in key_columns :
            LET i == df_filtered[k].idx
                above == {j \in Donors(i, c) : j < i}
            IN  /\ df[i][c] # NA => df_filtered[k][c] = df[i][c]
                /\ df[i][c] = NA =>
                     IF above = {} THEN df_filtered[k][c] = 0
                     ELSE \E j \in above :
                             /\ \A m \in above : m <= j
                             /\ df_filtered[k][c] = df[j][c]

C6_Witness ==
    /\ CleanDone
    /\ \E k \in DOMAIN df_filtered :
          LET i == df_filtered[k].idx
          IN  /\ df[i].total_cases = NA
              /\ \E j \in 1..(i - 1) :
                    /\ df[j].location = df[i].location
                    /\ df[j].total_cases = df_filtered[k].total_cases
                    /\ df[j].date > df[i].date

(* snapshot s holds exactly one entry for each location of table t *)
OnePerLocation(s, t) ==
    /\ {s[k].location : k \in DOMAIN s} = {t[i].location : i \in DOMAIN t} \ {NaLoc}
    /\ \A k, m \in DOMAIN s : s[k].location = s[m].location => k = m

(* the rows of t of location l, by index *)
Group(t, l) == {i \in DOMAIN t : t[i].location = l}

(* C7, as claimed: once taken, the snapshot of the bar charts holds exactly
   one entry per country of the filtered table, and every column of the
   entry equals the value of one row of the country that has its greatest
   date, missing values included. *)
C7_LatestIsLastRow ==
    SnapshotTaken =>
        /\ OnePerLocation(latest_data, df_filtered)
        /\ \A k \in DOMAIN latest_data :
              LET e == latest_data[k]
                  g == Group(df_filtered, e.location)
              IN  \E i \in g :
                     /\ \A m \in g : df_filtered[m].date <= df_filtered[i].date
                     /\ \A c \in DOMAIN e : e[c] = df_filtered[i][c]

(* entry e of a snapshot of table t holds, in each column, the value of a
   row of its location that holds a value in that column and that no other
   such row follows in date order; a missing value when no row holds one *)
LastValues(e, t) ==
    \A c \in DOMAIN e \ {"location"} :
        LET h == {i \in Group(t, e.location) : ~IsNull(c, t[i][c])}
        IN  IF h = {} THEN IsNull(c, e[c])
            ELSE \E i \in h :
                    /\ \A m \in h : ~DateBefore(t[i].date, t[m].date)
                    /\ e[c] = t[i][c]

(* C7, amended: the snapshot of the bar charts holds exactly one entry per
   country of the filtered table, and each column of the entry equals the
   value of the country's last row in date order that holds a value in that
   column: a column missing in the country's last row (such as
   people_fully_vaccinated_per_hundred) takes the most recent earlier value,
   and is missing only when no row of the country holds one. *)
C7_LatestIsLastValue ==
    /\ SnapshotTaken =>
          /\ OnePerLocation(latest_data, df_filtered)
          /\ \A k \in DOMAIN latest_data : LastValues(latest_data[k], df_filtered)
    /\ ChartDone =>
          /\ OnePerLocation(latest_vaccination, df_filtered)
          /\ \A k \in DOMAIN latest_vaccination :
                LastValues(latest_vaccination[k], df_filtered)

C7_Witness ==
    /\ ChartDone
    /\ \E k \in DOMAIN latest_vaccination :
          LET e == latest_vaccination[k]
              g == Group(df_filtered, e.location)
          IN  /\ e[Vacc] # NA
              /\ \E i \in g :
                    /\ \A m \in g \ {i} : df_filtered[m].date < df_filtered[i].date
                    /\ df_filtered[i][Vacc] = NA
                    /\ df_filtered[i].total_cases = e.total_cases

(* C8: cleaning leaves the raw table its rows and values (only the dates are
   parsed), and the map snapshot taken afterwards holds exactly one entry per
   location of the raw table, the locations outside the allowlist included,
   each column with a value of the file for that location, not a filled one. *)
C8_RawUntouched ==
    /\ CleanDone =>
          /\ Len(df) = Len(Raw)
          /\ \A i \in DOMAIN df : \A c \in DOMAIN df[i] : df[i][c] = Raw[i][c]
    /\ SnapshotDone =>
          /\ OnePerLocation(latest_global, Raw)
          /\ \A k \in DOMAIN latest_global : LastValues(latest_global[k], Raw)

C8_Witness ==
    /\ SnapshotDone
    /\ \E k \in DOMAIN latest_global :
          latest_global[k].location \notin countries_of_interest
    /\ \E k \in DOMAIN latest_global : \E m \in DOMAIN df_filtered :
          /\ latest_global[k].location = df_filtered[m].location
          /\ latest_global[k].total_cases = NA
          /\ df_filtered[m].total_cases = 0

BarPanels == {3, 4, 5, 7}

PanelMetric(p) ==
    CASE p = 3 -> "death_rate" [] p = 4 -> "cases_per_million"
      [] p = 5 -> "deaths_per_million" [] OTHER -> Vacc

(* the snapshot entry of location l *)
EntryOf(l) == CHOOSE e \in Range(latest_data) : e.location = l

(* C9: each bar panel shows one bar per country of the latest snapshot, in
   non-increasing order of the panel's own metric (countries whose metric is
   NaN last), and the sorts leave the snapshot its entries. *)
C9_PanelsSorted ==
    ChartDone =>
        /\ Range(latest_data) = Range(LatestData(df_filtered))
        /\ Range(latest_vaccination) = Range(latest_data)
        /\ \A p \in BarPanels :
              LET bars == panels[p]
                  M(i) == Metric(EntryOf(bars[i].x), PanelMetric(p))
              IN  /\ {bars[i].x : i \in DOMAIN bars} =
                        {e.location : e \in Range(latest_data)}
                  /\ \A i, j \in DOMAIN bars : bars[i].x = bars[j].x => i = j
                  /\ \A i, j \in DOMAIN bars :
                        i < j =>
                          /\ IsNaN(M(i)) => IsNaN(M(j))
                          /\ (~IsNaN(M(i)) /\ ~IsNaN(M(j))) => ~FGt(M(j), M(i))

C9_Witness ==
    /\ ChartDone
    /\ Len(panels[3]) = 3
    /\ panels[3][1].x # panels[4][1].x
    /\ panels[4][1].x # panels[5][1].x
    /\ panels[5][1].x # panels[7][1].x
    /\ \E i \in DOMAIN panels[3] : IsNaN(panels[3][i].y)

MapColumns == {"iso_code", "total_cases_per_million", Vacc}

(* C10: when the input lacks iso_code or the colour column of either map, no
   map file is written or created and the run never gets past the first map;
   it ends aborted. *)
C10_NoMapWithoutColumns ==
    /\ []((env.exists /\ ~(MapColumns \subseteq env.columns)) =>
            /\ Range(written) \cap Maps = {}
            /\ files \cap Maps = env.files0 \cap Maps
            /\ pc \notin {"cases_written", "vacc_written", "done"})
    /\ ((env.exists /\ ~(MapColumns \subseteq env.columns)) ~> pc = "aborted")

C10_Witness ==
    /\ env.exists
    /\ "iso_code" \notin env.columns
    /\ pc = "aborted"
    /\ written = <<Image>>
    /\ latest_global # <<>>

=============================================================================
